---------------------------- MODULE Spec2Model ----------------------------
(***************************************************************************)
(* Model of the run controller of vqe_simulator_dashboard.py: the timer    *)
(* callback start_data_generation, the sampling step                       *)
(* generate_new_data_point, check_convergence and the Run Simulation       *)
(* handler button_click.  Of the widgets the model keeps the titles of the *)
(* three chart panels and the length of the Series that update_charts is   *)
(* handed.  Every rendering helper called from a tick catches its own      *)
(* exceptions, except update_status.                                       *)
(*                                                                         *)
(* Energies are fixed-point integers: one unit is 1/8000 Hartree, so that  *)
(* 0.001 is 8 units and 0.0005 is 4 units.  np.random.random() is one of   *)
(* the four levels 0..3, standing for U = 0, 1/4, 1/2, 3/4.  np.exp is a   *)
(* fixed-point value on a scale of 32768, kept per method in exp_neg.      *)
(***************************************************************************)
EXTENDS Integers, Sequences, FiniteSets

VARIABLES
    data_storage,        \* self.data_storage: method -> [iterations, energy]
    current_iteration,   \* self.current_iteration
    simulation_stopped,  \* self.simulation_stopped
    converged_methods,   \* self.converged_methods
    timer,               \* start_data_generation callbacks queued by root.after
    exp_neg,             \* np.exp(-current_iteration/decay) per method, scaled by ExpOne
    titles,              \* title of the chart on panel1, panel2, panel3
    charted,             \* log: length of each Series when update_charts last drew it
    mark_calls,          \* mark_convergence calls made in the current run, per method
    history,             \* log: every energy appended in the current run, per method
    converged_at,        \* length of history when the method converged, 0 if it has not
    noisy,               \* ticks of the current run that drew a non-zero level
    op,                  \* the handler that ran last
    pre                  \* the core state that handler started from

vars == <<data_storage, current_iteration, simulation_stopped, converged_methods,
          timer, exp_neg, titles, charted, mark_calls, history, converged_at, noisy,
          op, pre>>

-----------------------------------------------------------------------------
(* Program constants, in units of 1/8000 where they are energies.          *)

Methods == {"normal_vqe", "vqe_uccsd_hybrid", "vqe_uccsd_hybrid_zne"}

convergence_threshold == 8
convergence_window == 5
MaxPoints == 50

base == [normal_vqe |-> -6400, vqe_uccsd_hybrid |-> -8000, vqe_uccsd_hybrid_zne |-> -8800]
amplitude == [normal_vqe |-> 3200, vqe_uccsd_hybrid |-> 3200, vqe_uccsd_hybrid_zne |-> 4000]
noise == [normal_vqe |-> 640, vqe_uccsd_hybrid |-> 240, vqe_uccsd_hybrid_zne |-> 160]
jitter == [normal_vqe |-> 8, vqe_uccsd_hybrid |-> 8, vqe_uccsd_hybrid_zne |-> 4]

(* np.exp(-iteration/decay) on the scale ExpOne.  ExpStep[m] is            *)
(* exp(-1/decay) for decay = 20, 10, 8; exp(-i/decay) is its i-th power,   *)
(* rounded down after every multiplication.  The power for the current     *)
(* iteration is carried in exp_neg: it is ExpOne when the iteration is 0   *)
(* and is multiplied by ExpStep[m] whenever the iteration is incremented.  *)
ExpOne == 32768
ExpStep == [normal_vqe |-> 31170, vqe_uccsd_hybrid |-> 29650, vqe_uccsd_hybrid_zne |-> 28918]
ExpZero == [m \in Methods |-> ExpOne]
ExpNext(e) == [m \in Methods |-> (e[m] * ExpStep[m]) \div ExpOne]

-----------------------------------------------------------------------------
(* The random draws.  A tick makes one draw per method.  Most ticks draw   *)
(* level 0 for every method; at most MaxNoisyTicks ticks of a run draw    *)
(* NoisyDraw instead, which gives every method another level.              *)

MaxNoisyTicks == 1

ZeroDraw == [m \in Methods |-> 0]
NoisyDraw == [normal_vqe |-> 2, vqe_uccsd_hybrid |-> 3, vqe_uccsd_hybrid_zne |-> 1]
Draws(n) == IF n < MaxNoisyTicks THEN {ZeroDraw, NoisyDraw} ELSE {ZeroDraw}

-----------------------------------------------------------------------------
(* Python list helpers.                                                    *)

Last(seq) == seq[Len(seq)]
Tail_n(seq, n) == IF Len(seq) <= n THEN seq ELSE SubSeq(seq, Len(seq) - n + 1, Len(seq))
Max(seq) == CHOOSE x \in {seq[i] : i \in 1 .. Len(seq)} : \A j \in 1 .. Len(seq) : seq[j] <= x
Min(seq) == CHOOSE x \in {seq[i] : i \in 1 .. Len(seq)} : \A j \in 1 .. Len(seq) : x <= seq[j]

-----------------------------------------------------------------------------
(* The handlers, as functions on the record s of the object's fields.      *)

EmptyStorage == [m \in Methods |-> [iterations |-> << >>, energy |-> << >>]]
NoCalls == [m \in Methods |-> 0]
NoHistory == [m \in Methods |-> << >>]

(* The chart panels and the Series each one plots (update_charts).  panel4 *)
(* is the energy summary: it has no chart_frame, and no title to set.      *)
Panels == {"panel1", "panel2", "panel3"}
plotted_on == [normal_vqe |-> "panel1", vqe_uccsd_hybrid |-> "panel2",
               vqe_uccsd_hybrid_zne |-> "panel3"]
NoTitles == [p \in Panels |-> ""]
NotCharted == [m \in Methods |-> 0]

Constructed == [data_storage |-> EmptyStorage,
                current_iteration |-> 0,
                simulation_stopped |-> FALSE,
                converged_methods |-> {},
                timer |-> 0,
                exp_neg |-> ExpZero,
                titles |-> NoTitles,
                charted |-> NotCharted,
                mark_calls |-> NoCalls,
                history |-> NoHistory]

(* Mutant: the decay term is added instead of subtracted.                  *)
new_energy_grows(s, m, level) ==
    IF m \notin s.converged_methods
    THEN base[m] + (amplitude[m] * (ExpOne - s.exp_neg[m])) \div ExpOne
                 + (noise[m] * level) \div 4
    ELSE Last(s.data_storage[m].energy) + (jitter[m] * (2 * level - 4)) \div 8

(* Mutant: the converged step spans the whole jitter, not half of it.      *)
new_energy_full_jitter(s, m, level) ==
    IF m \notin s.converged_methods
    THEN base[m] - (amplitude[m] * (ExpOne - s.exp_neg[m])) \div ExpOne
                 + (noise[m] * level) \div 4
    ELSE Last(s.data_storage[m].energy) + (jitter[m] * (2 * level - 4)) \div 4

new_energy(s, m, level) ==
    IF m \notin s.converged_methods
    THEN base[m] - (amplitude[m] * (ExpOne - s.exp_neg[m])) \div ExpOne
                 + (noise[m] * level) \div 4
    ELSE Last(s.data_storage[m].energy) + (jitter[m] * (2 * level - 4)) \div 8

(* Mutant: a window whose range equals the threshold converges too.        *)
ConvergesAtThreshold(energies) ==
    /\ Len(energies) >= convergence_window
    /\ Max(Tail_n(energies, convergence_window)) - Min(Tail_n(energies, convergence_window))
          <= convergence_threshold

Converges(energies) ==
    /\ Len(energies) >= convergence_window
    /\ Max(Tail_n(energies, convergence_window)) - Min(Tail_n(energies, convergence_window))
          < convergence_threshold

(* mark_convergence: the panel whose chart title the call for method_name  *)
(* sets.  The branch for "vqe_uccsd" is never taken; the branch for         *)
(* vqe_uccsd_hybrid_zne reads panel4.chart_frame, which raises an          *)
(* AttributeError that the handler catches, so it sets no title.           *)
marked_panel(method_name) ==
    CASE method_name = "normal_vqe" -> "panel1"
      [] method_name = "vqe_uccsd" -> "panel2"
      [] method_name = "vqe_uccsd_hybrid" -> "panel3"
      [] OTHER -> "none"

mark_convergence(panel_titles, methods) ==
    [p \in Panels |-> IF \E m \in methods : marked_panel(m) = p
                      THEN "CONVERGED"
                      ELSE panel_titles[p]]

(* Mutant: methods already converged are checked again.                    *)
check_convergence_no_skip(s) ==
    LET newly == {m \in Methods : Converges(s.data_storage[m].energy)}
    IN [s EXCEPT !.converged_methods = @ \cup newly,
                 !.titles = mark_convergence(@, newly),
                 !.mark_calls = [m \in Methods |-> IF m \in newly THEN @[m] + 1 ELSE @[m]]]

check_convergence(s) ==
    LET newly == {m \in Methods \ s.converged_methods : Converges(s.data_storage[m].energy)}
    IN [s EXCEPT !.converged_methods = @ \cup newly,
                 !.titles = mark_convergence(@, newly),
                 !.mark_calls = [m \in Methods |-> IF m \in newly THEN @[m] + 1 ELSE @[m]]]

(* update_charts: the log of what it is handed.                            *)
update_charts(s) ==
    [s EXCEPT !.charted = [m \in Methods |-> Len(s.data_storage[m].iterations)]]

(* Mutant: only the Series whose length the guard tests is truncated.      *)
truncate_normal_only(s) ==
    IF Len(s.data_storage["normal_vqe"].iterations) > MaxPoints
    THEN [s EXCEPT !.data_storage["normal_vqe"] =
             [iterations |-> Tail_n(@.iterations, MaxPoints),
              energy |-> Tail_n(@.energy, MaxPoints)]]
    ELSE s

(* Mutant: the slice keeps the first MaxPoints entries.                    *)
truncate_head(s) ==
    IF Len(s.data_storage["normal_vqe"].iterations) > MaxPoints
    THEN [s EXCEPT !.data_storage =
             [m \in Methods |-> [iterations |-> SubSeq(@[m].iterations, 1, MaxPoints),
                                 energy |-> SubSeq(@[m].energy, 1, MaxPoints)]]]
    ELSE s

truncate(s) ==
    IF Len(s.data_storage["normal_vqe"].iterations) > MaxPoints
    THEN [s EXCEPT !.data_storage =
             [m \in Methods |-> [iterations |-> Tail_n(@[m].iterations, MaxPoints),
                                 energy |-> Tail_n(@[m].energy, MaxPoints)]]]
    ELSE s

(* Mutant: the stop flag is not set when the third method converges.       *)
generate_never_stops(s, draw) ==
    LET iteration == s.current_iteration
        energy == [m \in Methods |-> new_energy(s, m, draw[m])]
        appended == [s EXCEPT !.data_storage =
                        [m \in Methods |->
                            [iterations |-> Append(@[m].iterations, iteration),
                             energy |-> Append(@[m].energy, energy[m])]],
                              !.history = [m \in Methods |-> Append(@[m], energy[m])]]
        checked == update_charts(check_convergence(appended))
        counted == [checked EXCEPT !.current_iteration = @ + 1,
                                   !.exp_neg = ExpNext(@)]
    IN truncate(counted)

(* Mutant: the tick returns right after setting the stop flag, before the  *)
(* counter is incremented.                                                 *)
generate_returns_at_stop(s, draw) ==
    LET iteration == s.current_iteration
        energy == [m \in Methods |-> new_energy(s, m, draw[m])]
        appended == [s EXCEPT !.data_storage =
                        [m \in Methods |->
                            [iterations |-> Append(@[m].iterations, iteration),
                             energy |-> Append(@[m].energy, energy[m])]],
                              !.history = [m \in Methods |-> Append(@[m], energy[m])]]
        checked == update_charts(check_convergence(appended))
        converged_count == Cardinality(checked.converged_methods)
    IN IF converged_count = 3
       THEN [checked EXCEPT !.simulation_stopped = TRUE]
       ELSE truncate([checked EXCEPT !.current_iteration = @ + 1,
                                     !.exp_neg = ExpNext(@)])

(* Mutant: the Series are truncated before the counter is incremented,    *)
(* and the increment is skipped by the tick that truncates.                *)
generate_counts_unless_truncated(s, draw) ==
    LET iteration == s.current_iteration
        energy == [m \in Methods |-> new_energy(s, m, draw[m])]
        appended == [s EXCEPT !.data_storage =
                        [m \in Methods |->
                            [iterations |-> Append(@[m].iterations, iteration),
                             energy |-> Append(@[m].energy, energy[m])]],
                              !.history = [m \in Methods |-> Append(@[m], energy[m])]]
        checked == update_charts(check_convergence(appended))
        converged_count == Cardinality(checked.converged_methods)
        stopped == IF converged_count = 3
                   THEN [checked EXCEPT !.simulation_stopped = TRUE]
                   ELSE checked
    IN IF Len(stopped.data_storage["normal_vqe"].iterations) > MaxPoints
       THEN truncate([stopped EXCEPT !.exp_neg = ExpNext(@)])
       ELSE [stopped EXCEPT !.current_iteration = @ + 1, !.exp_neg = ExpNext(@)]

generate_new_data_point(s, draw) ==
    LET iteration == s.current_iteration
        energy == [m \in Methods |-> new_energy(s, m, draw[m])]
        appended == [s EXCEPT !.data_storage =
                        [m \in Methods |->
                            [iterations |-> Append(@[m].iterations, iteration),
                             energy |-> Append(@[m].energy, energy[m])]],
                              !.history = [m \in Methods |-> Append(@[m], energy[m])]]
        checked == update_charts(check_convergence(appended))
        converged_count == Cardinality(checked.converged_methods)
        counted == [checked EXCEPT
                       !.simulation_stopped = IF converged_count = 3 THEN TRUE ELSE @,
                       !.current_iteration = @ + 1,
                       !.exp_neg = ExpNext(@)]
    IN truncate(counted)

(* generate_new_data_point when update_status raises: the call at lines    *)
(* 549-554 is outside any try, so the handler ends there, after the        *)
(* samples are appended, checked and drawn.                                *)
generate_status_raises(s, draw) ==
    LET iteration == s.current_iteration
        energy == [m \in Methods |-> new_energy(s, m, draw[m])]
        appended == [s EXCEPT !.data_storage =
                        [m \in Methods |->
                            [iterations |-> Append(@[m].iterations, iteration),
                             energy |-> Append(@[m].energy, energy[m])]],
                              !.history = [m \in Methods |-> Append(@[m], energy[m])]]
    IN update_charts(check_convergence(appended))

(* start_data_generation when update_status raises: the exception leaves   *)
(* the callback before root.after is reached.                              *)
start_data_generation_status_raises(s, draw) ==
    IF s.simulation_stopped \/ Cardinality(s.converged_methods) >= 3
    THEN s
    ELSE generate_status_raises(s, draw)

start_data_generation(s, draw) ==
    IF s.simulation_stopped \/ Cardinality(s.converged_methods) >= 3
    THEN IF Cardinality(s.converged_methods) >= 3
         THEN [s EXCEPT !.simulation_stopped = TRUE]
         ELSE s
    ELSE LET t == generate_new_data_point(s, draw)
         IN IF ~t.simulation_stopped THEN [t EXCEPT !.timer = @ + 1] ELSE t

(* Mutant: the handler also queues start_data_generation.                  *)
button_click_restarts(s) ==
    [s EXCEPT !.current_iteration = 0,
              !.converged_methods = {},
              !.simulation_stopped = FALSE,
              !.data_storage = EmptyStorage,
              !.exp_neg = ExpZero,
              !.titles = NoTitles,
              !.timer = @ + 1]

(* Mutant: the Convergence Set is not cleared.                             *)
button_click_keeps_converged(s) ==
    [s EXCEPT !.current_iteration = 0,
              !.simulation_stopped = FALSE,
              !.data_storage = EmptyStorage,
              !.exp_neg = ExpZero,
              !.titles = NoTitles]

(* Mutant: the stop flag is not cleared.                                   *)
button_click_keeps_stopped(s) ==
    [s EXCEPT !.current_iteration = 0,
              !.converged_methods = {},
              !.data_storage = EmptyStorage,
              !.exp_neg = ExpZero,
              !.titles = NoTitles]

(* Mutant: the iteration counter is not reset.                             *)
button_click_keeps_iteration(s) ==
    [s EXCEPT !.converged_methods = {},
              !.simulation_stopped = FALSE,
              !.data_storage = EmptyStorage,
              !.titles = NoTitles]

button_click(s) ==
    [s EXCEPT !.current_iteration = 0,
              !.converged_methods = {},
              !.simulation_stopped = FALSE,
              !.data_storage = EmptyStorage,
              !.exp_neg = ExpZero,
              !.titles = NoTitles]

-----------------------------------------------------------------------------
(* The state machine.                                                      *)

Fields == [data_storage |-> data_storage,
           current_iteration |-> current_iteration,
           simulation_stopped |-> simulation_stopped,
           converged_methods |-> converged_methods,
           timer |-> timer,
           exp_neg |-> exp_neg,
           titles |-> titles,
           charted |-> charted,
           mark_calls |-> mark_calls,
           history |-> history]

Summary(s) == [current_iteration |-> s.current_iteration,
               simulation_stopped |-> s.simulation_stopped,
               converged_methods |-> s.converged_methods,
               timer |-> s.timer,
               length |-> Len(s.data_storage["normal_vqe"].iterations)]

NotYet == [m \in Methods |-> 0]

Init ==
    \E draw \in Draws(0) :
        LET t == start_data_generation(Constructed, draw)
        IN /\ data_storage = t.data_storage
           /\ current_iteration = t.current_iteration
           /\ simulation_stopped = t.simulation_stopped
           /\ converged_methods = t.converged_methods
           /\ timer = t.timer
           /\ exp_neg = t.exp_neg
           /\ titles = t.titles
           /\ charted = t.charted
           /\ mark_calls = t.mark_calls
           /\ history = t.history
           /\ converged_at = NotYet
           /\ noisy = IF draw = ZeroDraw THEN 0 ELSE 1
           /\ op = "__init__"
           /\ pre = Summary(Constructed)

(* A queued start_data_generation callback fires.                          *)
Tick ==
    /\ timer >= 1
    /\ \E draw \in Draws(noisy) :
        LET s == [Fields EXCEPT !.timer = @ - 1]
            t == start_data_generation(s, draw)
        IN /\ data_storage' = t.data_storage
           /\ current_iteration' = t.current_iteration
           /\ simulation_stopped' = t.simulation_stopped
           /\ converged_methods' = t.converged_methods
           /\ timer' = t.timer
           /\ exp_neg' = t.exp_neg
           /\ titles' = t.titles
           /\ charted' = t.charted
           /\ mark_calls' = t.mark_calls
           /\ history' = t.history
           /\ converged_at' = [m \in Methods |->
                                  IF m \in t.converged_methods \ s.converged_methods
                                  THEN Len(t.history[m])
                                  ELSE converged_at[m]]
           /\ noisy' = IF draw = ZeroDraw THEN noisy ELSE noisy + 1
           /\ op' = "start_data_generation"
           /\ pre' = Summary(Fields)

(* The user presses Run Simulation.  The logs charted, mark_calls,         *)
(* history, converged_at and noisy are kept per run and start again here.  *)
ButtonClick ==
    LET t == button_click(Fields)
    IN /\ data_storage' = t.data_storage
       /\ current_iteration' = t.current_iteration
       /\ simulation_stopped' = t.simulation_stopped
       /\ converged_methods' = t.converged_methods
       /\ timer' = t.timer
       /\ exp_neg' = t.exp_neg
       /\ titles' = t.titles
       /\ charted' = NotCharted
       /\ mark_calls' = NoCalls
       /\ history' = NoHistory
       /\ converged_at' = NotYet
       /\ noisy' = 0
       /\ op' = "button_click"
       /\ pre' = Summary(Fields)

Next == Tick \/ ButtonClick

Spec == Init /\ [][Next]_vars

(* The same program with a status bar that may fail: any call of           *)
(* update_status may raise.  Tk reports the exception of a callback and    *)
(* goes on with the event loop.                                            *)
TickStatusRaises ==
    /\ timer >= 1
    /\ \E draw \in Draws(noisy) :
        LET s == [Fields EXCEPT !.timer = @ - 1]
            t == start_data_generation_status_raises(s, draw)
        IN /\ data_storage' = t.data_storage
           /\ current_iteration' = t.current_iteration
           /\ simulation_stopped' = t.simulation_stopped
           /\ converged_methods' = t.converged_methods
           /\ timer' = t.timer
           /\ exp_neg' = t.exp_neg
           /\ titles' = t.titles
           /\ charted' = t.charted
           /\ mark_calls' = t.mark_calls
           /\ history' = t.history
           /\ converged_at' = [m \in Methods |->
                                  IF m \in t.converged_methods \ s.converged_methods
                                  THEN Len(t.history[m])
                                  ELSE converged_at[m]]
           /\ noisy' = IF draw = ZeroDraw THEN noisy ELSE noisy + 1
           /\ op' = "start_data_generation raised"
           /\ pre' = Summary(Fields)

(* button_click calls update_status first (line 161): nothing is reset.    *)
ButtonClickStatusRaises ==
    /\ op' = "button_click raised"
    /\ pre' = Summary(Fields)
    /\ UNCHANGED <<data_storage, current_iteration, simulation_stopped,
                   converged_methods, timer, exp_neg, titles, charted, mark_calls,
                   history, converged_at, noisy>>

NextDisplayFails == Tick \/ ButtonClick \/ TickStatusRaises \/ ButtonClickStatusRaises

SpecDisplayFails == Init /\ [][NextDisplayFails]_vars

-----------------------------------------------------------------------------
(* Vocabulary of the properties.                                           *)

AnyMethod == "normal_vqe"

(* The step ran generate_new_data_point to its end.                        *)
Sampling == Len(history'[AnyMethod]) = Len(history[AnyMethod]) + 1

(* The step is the Run Simulation handler.                                 *)
Resetting == op' = "button_click"

(* max - min of the last convergence_window entries of seq, which has at   *)
(* least that many, is below bound / equals bound.                         *)
WindowOf(seq) == (Len(seq) - convergence_window + 1) .. Len(seq)
RangeBelow(seq, bound) == \A i, j \in WindowOf(seq) : seq[i] - seq[j] < bound
RangeIs(seq, bound) ==
    /\ \A i, j \in WindowOf(seq) : seq[i] - seq[j] <= bound
    /\ \E i, j \in WindowOf(seq) : seq[i] - seq[j] = bound

Abs(x) == IF x < 0 THEN -x ELSE x

-----------------------------------------------------------------------------
(* C1: after every completed tick and after every Reset each Series holds  *)
(* at most 50 entries, and they are the most recently appended samples of  *)
(* the run: with n samples appended since the last Reset, the samples with *)
(* iterations max(0, n-50) .. n-1, in insertion order.                     *)
C1_Retention ==
    \A m \in Methods :
        LET n == Len(history[m])
            kept == IF n <= 50 THEN n ELSE 50
            it == data_storage[m].iterations
            en == data_storage[m].energy
        IN /\ Len(it) = kept
           /\ Len(en) = kept
           /\ \A k \in 1 .. kept :
                 /\ it[k] = n - kept + k - 1
                 /\ en[k] = history[m][n - kept + k]

(* The truncation has dropped entries and the run is still sampling.       *)
C1_Witness ==
    /\ op = "start_data_generation"
    /\ \A m \in Methods : Len(history[m]) = 53 /\ Len(data_storage[m].energy) = 50

(* C2: between handlers simulation_stopped is true exactly when all three  *)
(* methods are in converged_methods, and once it is true no sample is      *)
(* appended to any Series until a Reset.                                   *)
C2_StoppedIffAllConverged ==
    /\ [](simulation_stopped <=> Cardinality(converged_methods) = 3)
    /\ [][simulation_stopped /\ ~Resetting => data_storage' = data_storage]_vars
    /\ [][simulation_stopped' /\ ~simulation_stopped => Sampling]_vars

(* The tick in which the third method converged has stopped the run.       *)
C2_Witness ==
    /\ op = "start_data_generation"
    /\ simulation_stopped
    /\ Cardinality(pre.converged_methods) = 2
    /\ Len(history[AnyMethod]) = pre.current_iteration + 1

(* C3: at the convergence check of a tick a method not yet converged is    *)
(* added exactly when it has at least 5 energies and the max-min range of  *)
(* the last 5 is strictly below the threshold; so no method is converged   *)
(* while fewer than 5 samples have been appended in the run.               *)
C3_ConvergenceRule ==
    /\ [](\A m \in converged_methods : Len(history[m]) >= 5)
    /\ [][Sampling =>
            \A m \in Methods \ converged_methods :
                m \in converged_methods' <=>
                    (Len(history'[m]) >= 5 /\ RangeBelow(history'[m], 8))]_vars

(* A method whose last 5 energies span exactly the threshold has been      *)
(* checked and left unconverged, while another method has converged.       *)
C3_Witness ==
    /\ op = "start_data_generation"
    /\ converged_methods # {}
    /\ \E m \in Methods \ converged_methods :
          Len(history[m]) >= 5 /\ RangeIs(history[m], 8)

(* C4: within a run a method converges at most once and stays converged:   *)
(* mark_convergence is called for it at most once, exactly when it enters  *)
(* converged_methods, no tick removes it, and only Reset empties the set.  *)
C4_OneShot ==
    /\ [](\A m \in Methods :
            /\ mark_calls[m] <= 1
            /\ m \in converged_methods <=> mark_calls[m] = 1)
    /\ [][~Resetting => converged_methods \subseteq converged_methods']_vars
    /\ [][Resetting => converged_methods' = {}]_vars

(* A converged method whose last 5 energies no longer lie within the       *)
(* threshold has been through a further tick and is still converged.       *)
C4_Witness ==
    /\ op = "start_data_generation"
    /\ \E m \in converged_methods \cap pre.converged_methods :
          ~RangeBelow(data_storage[m].energy, 8)

(* C5: every value appended for a method after it converged stays within   *)
(* the jitter bound (0.001, 0.001, 0.0005) of the value it had when it     *)
(* converged.                                                              *)
C5_JitterBound ==
    \A m \in Methods :
        converged_at[m] > 0 =>
            \A k \in converged_at[m] .. Len(history[m]) :
                Abs(history[m][k] - history[m][converged_at[m]]) <= jitter[m]

(* C6: within a run current_iteration never decreases, grows by exactly 1  *)
(* in every tick that samples and by nothing in any other tick, and does   *)
(* not change once the run has stopped, until a Reset.                     *)
C6_IterationCounter ==
    /\ [][Sampling => current_iteration' = current_iteration + 1]_vars
    /\ [][~Sampling /\ ~Resetting => current_iteration' = current_iteration]_vars
    /\ [][simulation_stopped /\ ~Resetting => current_iteration' = current_iteration]_vars

(* The run has stopped after more ticks than a Series retains.             *)
C6_Witness ==
    /\ op = "start_data_generation"
    /\ simulation_stopped
    /\ current_iteration = pre.current_iteration + 1
    /\ current_iteration > 50

(* C7: Reset from any state yields current_iteration = 0, an empty         *)
(* converged_methods, simulation_stopped = false and all Series empty.     *)
C7_Reset ==
    op = "button_click" =>
        /\ current_iteration = 0
        /\ converged_methods = {}
        /\ simulation_stopped = FALSE
        /\ \A m \in Methods :
              data_storage[m].iterations = << >> /\ data_storage[m].energy = << >>

(* Reset has run on a stopped simulation.                                  *)
C7_Witness ==
    /\ op = "button_click"
    /\ pre.simulation_stopped
    /\ Cardinality(pre.converged_methods) = 3
    /\ pre.length = 50

(* C8: after Run Simulation, from any state, a tick follows that appends   *)
(* the sample with iteration 0 to every Series.  Queued callbacks fire, so *)
(* a tick follows exactly when one can: Series that Reset has emptied are  *)
(* filled by nothing but a tick, and a tick runs only from the queue.      *)
C8_RestartRuns ==
    op = "button_click" =>
        /\ ENABLED Tick
        /\ \A draw \in Draws(noisy) :
              \A m \in Methods :
                 start_data_generation([Fields EXCEPT !.timer = @ - 1], draw)
                     .data_storage[m].iterations = <<0>>

(* C9: a start_data_generation callback that is queued while the flag is   *)
(* set, or while all three methods have converged, is the case the claim   *)
(* is about.  No reachable state has one: see TimerImpliesRunning.         *)
TimerImpliesRunning ==
    timer >= 1 => ~simulation_stopped /\ Cardinality(converged_methods) < 3

(* C10: the iteration values of a Series grow by exactly 1 from entry to   *)
(* entry, and the first sample after startup or after a Reset has          *)
(* iteration 0, also when the Reset came between two ticks of a run.       *)
C10_ConsecutiveIterations ==
    \A m \in Methods :
        LET it == data_storage[m].iterations
        IN /\ \A k \in 1 .. Len(it) - 1 : it[k + 1] = it[k] + 1
           /\ (Len(it) >= 1 /\ Len(history[m]) <= 50) => it[1] = 0

(* The first tick after a Reset that interrupted a run has sampled.        *)
C10_Witness ==
    /\ op = "start_data_generation"
    /\ pre.current_iteration = 0
    /\ \A m \in Methods : data_storage[m].iterations = <<0>>

(* C11: a display collaborator that fails during a tick does not abort the *)
(* tick loop or corrupt the core state: the tick still increments          *)
(* current_iteration, truncates the Series, sets simulation_stopped when   *)
(* all methods have converged, and queues the next tick when not stopped.  *)
C11_DisplayFailureContained ==
    op = "start_data_generation raised" =>
        /\ current_iteration = pre.current_iteration + 1
        /\ \A m \in Methods : Len(data_storage[m].iterations) <= 50
        /\ Cardinality(converged_methods) = 3 => simulation_stopped
        /\ ~simulation_stopped => timer >= 1

(* C12: at most one start_data_generation callback is queued or running,   *)
(* however many restarts were made: a tick runs the only queued callback   *)
(* and queues at most one, and Reset neither queues nor cancels one.       *)
(* Handlers run to their end before the event loop dispatches the next     *)
(* event (no handler calls update or mainloop), which the model renders as *)
(* one step per handler; Reset is therefore a step between two ticks.       *)
C12_SingleTimer ==
    /\ timer \in {0, 1}
    /\ op = "start_data_generation" => pre.timer = 1
    /\ op = "button_click" => timer = pre.timer

(* A second restart in a row, pressed while a callback is queued.          *)
C12_Witness ==
    /\ op = "button_click"
    /\ pre.current_iteration = 0
    /\ pre.length = 0
    /\ timer = 1

(* C13: the sequence accesses of the core are defined in every state: a    *)
(* converged method, whose next sample reads energy[-1], has a non-empty   *)
(* Series, also right after a Reset; and the window that max and min are   *)
(* applied to has exactly 5 energies, shorter Series being left unchecked. *)
C13_Defined ==
    \A m \in Methods :
        /\ m \in converged_methods => data_storage[m].energy # << >>
        /\ Len(history[m]) >= 5 => Len(Tail_n(history[m], convergence_window)) = 5
        /\ Len(history[m]) < 5 => ~Converges(history[m])

(* A tick has taken the converged branch for some method.                  *)
C13_Witness ==
    /\ op = "start_data_generation"
    /\ pre.converged_methods # {}
    /\ current_iteration = pre.current_iteration + 1
    /\ \E m \in pre.converged_methods : Len(history[m]) > converged_at[m]

(* Samples of the run that were taken from the decay curve: all of them    *)
(* up to and including the one of the tick in which the method converged.  *)
Unconverged(m) ==
    IF converged_at[m] > 0 THEN converged_at[m] ELSE Len(history[m])

(* Ticks after which exp(-iteration/tau) has at least halved: tau * ln 2   *)
(* rounded up, for tau = 20, 10 and 8.                                     *)
HalfLife ==
    [normal_vqe |-> 14, vqe_uccsd_hybrid |-> 7, vqe_uccsd_hybrid_zne |-> 6]

(* C14: in a run whose draws are all 0, the decay-curve samples of each    *)
(* method start exactly at its base (-0.8, -1.0, -1.1) at iteration 0, are *)
(* non-increasing in the iteration number, stay strictly above             *)
(* base - amplitude (-1.2, -1.4, -1.6) and approach it: the distance to    *)
(* the limit at least halves over every half-life, up to one unit of       *)
(* rounding.                                                               *)
C14_DecayShape ==
    noisy = 0 =>
        \A m \in Methods :
            LET h == history[m]
                limit == base[m] - amplitude[m]
            IN  /\ Len(h) >= 1 => h[1] = base[m]
                /\ \A k \in 1 .. Unconverged(m) :
                       /\ h[k] > limit
                       /\ k > 1 => h[k] <= h[k - 1]
                       /\ k > HalfLife[m] =>
                              2 * (h[k] - limit) <= (h[k - HalfLife[m]] - limit) + 2

(* A run without noise that is 40 ticks long with no method converged.     *)
C14_Witness ==
    /\ noisy = 0
    /\ op = "start_data_generation"
    /\ converged_methods = {}
    /\ \A m \in Methods : Len(history[m]) >= 40

(* C17: the branch of the sample generator is chosen by the Convergence    *)
(* Set as it is when the tick starts. A method outside it, the one that    *)
(* converges in this very tick included, gets a decay-curve sample; a      *)
(* method inside it gets the previous Series value plus one step of        *)
(* magnitude at most jitter/2 (0.0005, 0.0005, 0.00025).                   *)
C17_BranchAtTickStart ==
    [][Sampling =>
        \A m \in Methods :
            IF m \in converged_methods
            THEN Abs(Last(history'[m]) - Last(history[m])) <= jitter[m] \div 2
            ELSE \E level \in 0 .. 3 :
                    Last(history'[m]) =
                        base[m] - (amplitude[m] * (ExpOne - exp_neg[m])) \div ExpOne
                                + (noise[m] * level) \div 4]_vars

(* A method has had two samples appended after the tick it converged in.   *)
C17_Witness ==
    /\ op = "start_data_generation"
    /\ \E m \in Methods :
          /\ converged_at[m] > 0
          /\ Len(history[m]) >= converged_at[m] + 2
          /\ history[m][converged_at[m] + 2] # history[m][converged_at[m] + 1]

(* C15: the chart update of every tick is handed Series of at most 50      *)
(* entries, the truncation having run before it.                           *)
C15_ChartSeesTruncated ==
    op = "start_data_generation" =>
        \A m \in Methods : charted[m] <= MaxPoints

(* C16: the CONVERGED title is on the panel that plots a method exactly    *)
(* when that method is in the Convergence Set: each converged method has   *)
(* its own panel marked, and no panel is marked for another method.        *)
C16_TitleOnOwnPanel ==
    \A m \in Methods :
        m \in converged_methods <=> titles[plotted_on[m]] = "CONVERGED"

(* C18: between handlers the three Series have the same length and the     *)
(* same list of iteration values, each with one energy per iteration; so   *)
(* the guard on the length of the normal_vqe Series alone truncates every  *)
(* Series exactly when that Series has grown past 50 entries.              *)
C18_SeriesInLockstep ==
    /\ [](\A m \in Methods :
            /\ data_storage[m].iterations = data_storage["normal_vqe"].iterations
            /\ Len(data_storage[m].energy) = Len(data_storage[m].iterations))
    /\ [][Sampling =>
            \A m \in Methods :
                LET grown == Len(data_storage[m].iterations) + 1
                IN Len(data_storage'[m].iterations) = IF grown > 50 THEN 50 ELSE grown]_vars

(* A tick has truncated all three Series while one method had converged.   *)
C18_Witness ==
    /\ op = "start_data_generation"
    /\ pre.length = 50
    /\ converged_methods # {}
    /\ \A m \in Methods : Len(data_storage[m].iterations) = 50 /\ Len(history[m]) = 60

(* C19: between handlers each Series has min(current_iteration, 50)        *)
(* entries and, when it is not empty, its last iteration value is          *)
(* current_iteration - 1; also after the tick that stops the run.          *)
C19_LengthAndLastIteration ==
    \A m \in Methods :
        LET it == data_storage[m].iterations
            kept == IF current_iteration <= 50 THEN current_iteration ELSE 50
        IN /\ Len(it) = kept
           /\ Len(data_storage[m].energy) = kept
           /\ it # << >> => Last(it) = current_iteration - 1

(* The tick that stopped a run of more than 50 ticks has returned.         *)
C19_Witness ==
    /\ op = "start_data_generation"
    /\ simulation_stopped
    /\ ~pre.simulation_stopped
    /\ pre.length = 50
    /\ \A m \in Methods : Last(data_storage[m].iterations) = pre.current_iteration

=============================================================================
